---- MODULE Spec2Model ----
(***************************************************************************)
(* Verification model of litex-boards:                                     *)
(*   - litex_boards/partner/targets/nereid.py : the PCIeUART register      *)
(*     bridge (one clock cycle of the sys domain per step) and the MSI     *)
(*     interrupt index allocation of NereidSoC.__init__;                   *)
(*   - litex_boards/platforms/radiona_ulx3s.py : Platform.__init__.        *)
(***************************************************************************)
EXTENDS Integers, Sequences, FiniteSets

\* ------------------------------------------------------------------ bounds
\* Bytes on the streams and on the CSR bus are drawn from 0..MaxByte.
MaxByte == 1
\* At most MaxPulses bytes are staged while the host honours the polling contract.
MaxPulses == 2
\* At most MaxRaces tx_valid pulses coincide with a downstream transfer in one
\* Transmitting period.
MaxRaces == 2
\* At most MaxMsis entries in the msis mapping.
MaxMsis == 3

Byte == 0..MaxByte

VARIABLES
    \* ---- PCIeUART (nereid.py 129-158)
    source_valid,      \* uart.source.valid, the only register of the bridge
    tx_data_storage,   \* tx_data.storage (CSRStorage(8))
    cyc,               \* the signals of the clock cycle that just ended
    staged,            \* history: tx_data.storage at each tx_valid pulse
    sent,              \* history: uart.source.data at each downstream transfer
    polled,            \* history: the host has only written tx_valid/tx_data while tx_ready
    burst,             \* history: downstream transfers since the state last left Idle
    races,             \* history: tx_valid pulses in a transfer cycle since then
    \* ---- MSI allocation (nereid.py 118-124), two builds
    msis, msi_pc, msi_sorted, msi_i, irqs, constants,
    \* ---- radiona_ulx3s.Platform.__init__ (radiona_ulx3s.py 252-256)
    device, revision, toolchain, plat_pc, plat_io, lattice_init

uart_vars == <<source_valid, tx_data_storage, cyc, staged, sent, polled, burst, races>>
msi_vars  == <<msis, msi_pc, msi_sorted, msi_i, irqs, constants>>
plat_vars == <<device, revision, toolchain, plat_pc, plat_io, lattice_init>>
vars      == <<uart_vars, msi_vars, plat_vars>>

\* ================================================================ PCIeUART

\* self.comb: rx_valid.status.eq(uart.sink.valid)
RxValidStatus(sink_valid) == sink_valid

\* Faulty variant: the upstream ready tied high instead of following the write strobe.
SinkReady_Always(rx_ready_re) == TRUE

\* self.comb: uart.sink.ready.eq(rx_ready.re)
SinkReady(rx_ready_re) == rx_ready_re

\* Faulty variant: rx_data left unconnected (reads as its reset value).
RxDataStatus_Unconnected(sink_data) == 0

\* self.comb: rx_data.status.eq(uart.sink.data)
RxDataStatus(sink_data) == sink_data

\* Faulty variant: the two branches of the If/Elif swapped, downstream ready first.
SourceValidNext_ReadyFirst(tx_valid_re, source_ready, valid) ==
    IF source_ready THEN FALSE
    ELSE IF tx_valid_re THEN TRUE
    ELSE valid

\* self.sync: If(tx_valid.re, valid.eq(1)).Elif(uart.source.ready, valid.eq(0))
SourceValidNext(tx_valid_re, source_ready, valid) ==
    IF tx_valid_re THEN TRUE
    ELSE IF source_ready THEN FALSE
    ELSE valid

\* Faulty variant: the negation forgotten.
TxReadyStatus_NotNegated(valid) == valid

\* self.comb: tx_ready.status.eq(~uart.source.valid)
TxReadyStatus(valid) == ~valid

\* Faulty variant: source.data left unconnected (its reset value).
SourceData_Unconnected(storage) == 0

\* self.comb: uart.source.data.eq(tx_data.storage)
SourceData(storage) == storage

\* Faulty variant: the storage loads the bus data in every cycle, strobe or not.
StorageNext_AlwaysLoad(tx_data_re, dat_w, storage) == dat_w

\* tx_data = CSRStorage(8): the storage takes the bus data on a write strobe
StorageNext(tx_data_re, dat_w, storage) ==
    IF tx_data_re THEN dat_w ELSE storage

\* The host's CSR bus operations in one cycle.
BusOps == {"idle", "rx_ready", "tx_valid", "tx_data"}

\* The signals of one clock cycle: the host's bus operation, the stream inputs and
\* the combinatorial outputs of the bridge.
Signals(op, dat_w, source_ready, sink_valid, sink_data) ==
    [ op           |-> op,
      dat_w        |-> IF op = "tx_data" THEN dat_w ELSE 0,
      source_ready |-> source_ready,
      sink_valid   |-> sink_valid,
      sink_data    |-> sink_data,
      storage      |-> tx_data_storage,
      source_valid |-> source_valid,
      source_data  |-> SourceData(tx_data_storage),
      tx_ready     |-> TxReadyStatus(source_valid),
      rx_valid     |-> RxValidStatus(sink_valid),
      rx_data      |-> RxDataStatus(sink_data),
      sink_ready   |-> SinkReady(op = "rx_ready") ]

\* One clock cycle of the sys domain in which the host performs bus operation op
\* (a CSR write is one cycle of its strobe; "idle" is no write, reads included).
\* The value written to rx_ready or tx_valid is read by nothing (only .re is used).
Cycle(op, dat_w, source_ready, sink_valid, sink_data) ==
    LET s        == Signals(op, dat_w, source_ready, sink_valid, sink_data)
        pulse    == op = "tx_valid"
        transfer == s.source_valid /\ source_ready
        polite   == (op \in {"tx_valid", "tx_data"}) => s.tx_ready
        ok       == polled /\ polite
    IN  /\ (pulse /\ ok) => Len(staged) < MaxPulses
        /\ (pulse /\ transfer) => races < MaxRaces
        /\ source_valid'    = SourceValidNext(pulse, source_ready, source_valid)
        /\ tx_data_storage' = StorageNext(op = "tx_data", dat_w, tx_data_storage)
        /\ cyc'    = s
        /\ polled' = ok
        /\ staged' = IF ~ok THEN <<>>
                     ELSE IF pulse THEN Append(staged, s.storage) ELSE staged
        /\ sent'   = IF ~ok THEN <<>>
                     ELSE IF transfer THEN Append(sent, s.source_data) ELSE sent
        /\ burst'  = IF pulse /\ ~s.source_valid THEN 0
                     ELSE IF transfer THEN burst + 1 ELSE burst
        /\ races'  = IF pulse /\ ~s.source_valid THEN 0
                     ELSE IF transfer /\ pulse THEN races + 1 ELSE races
        /\ UNCHANGED <<msi_vars, plat_vars>>

HostIdle ==
    \E r \in BOOLEAN, v \in BOOLEAN, d \in Byte :
        /\ cyc.op \in BusOps
        /\ Cycle("idle", 0, r, v, d)

HostWriteRxReady ==
    \E r \in BOOLEAN, v \in BOOLEAN, d \in Byte :
        /\ cyc.op \in BusOps
        /\ Cycle("rx_ready", 0, r, v, d)

HostWriteTxValid ==
    \E r \in BOOLEAN, v \in BOOLEAN, d \in Byte :
        /\ cyc.op \in BusOps
        /\ Cycle("tx_valid", 0, r, v, d)

HostWriteTxData ==
    \E w \in Byte, r \in BOOLEAN, v \in BOOLEAN, d \in Byte :
        /\ cyc.op \in BusOps
        /\ Cycle("tx_data", w, r, v, d)

\* Reset values of the registers; no cycle has run yet.
UartReset ==
    /\ source_valid = FALSE
    /\ tx_data_storage = 0
    /\ cyc = [ op |-> "idle", dat_w |-> 0, source_ready |-> FALSE, sink_valid |-> FALSE,
               sink_data |-> 0, storage |-> 0, source_valid |-> FALSE,
               source_data |-> SourceData(0), tx_ready |-> TxReadyStatus(FALSE),
               rx_valid |-> RxValidStatus(FALSE), rx_data |-> RxDataStatus(0),
               sink_ready |-> SinkReady(FALSE) ]
    /\ staged = <<>>
    /\ sent = <<>>
    /\ polled = TRUE
    /\ burst = 0
    /\ races = 0

\* ========================================================== MSI allocation

\* Interrupt source names as sequences of code points (Python str).
DMA_WRITER == <<68, 77, 65, 95, 87, 82, 73, 84, 69, 82>>
DMA_READER == <<68, 77, 65, 95, 82, 69, 65, 68, 69, 82>>
\* Two further names an msis mapping may hold: "DMA" and "UART".
DMA  == <<68, 77, 65>>
UART == <<85, 65, 82, 84>>
\* The suffix "_INTERRUPT" of the published constants.
INTERRUPT_SUFFIX == <<95, 73, 78, 84, 69, 82, 82, 85, 80, 84>>

MsiNames == {DMA_WRITER, DMA_READER, DMA, UART}

\* The irq signal a name is mapped to in msis.
IrqOf(k) ==
    CASE k = DMA_WRITER -> <<"pcie_dma.writer", "irq">>
      [] k = DMA_READER -> <<"pcie_dma.reader", "irq">>
      [] k = DMA        -> <<"pcie_dma", "irq">>
      [] k = UART       -> <<"uart", "irq">>

\* self.msis as written in the source: the dict's items in insertion order.
NereidMsis == << <<DMA_WRITER, IrqOf(DMA_WRITER)>>, <<DMA_READER, IrqOf(DMA_READER)>> >>

SeqRange(s) == { s[j] : j \in 1..Len(s) }

\* Python's str "<": lexicographic by code point, a proper prefix is smaller.
StrLess(a, b) ==
    \E j \in 1..(Len(a) + 1) :
        /\ j <= Len(b)
        /\ \A h \in 1..(j - 1) : a[h] = b[h]
        /\ (j = Len(a) + 1 \/ a[j] < b[j])

\* Faulty variant: the comparison reversed (a descending sort).
ItemLess_Reversed(x, y) == StrLess(y[1], x[1])

\* Python's tuple "<" on (k, v) items: the keys of a dict are distinct, so the
\* comparison is decided by the keys.
ItemLess(x, y) == StrLess(x[1], y[1])

RECURSIVE Insert(_, _)
Insert(x, s) ==
    IF s = <<>> THEN <<x>>
    ELSE IF ItemLess(x, Head(s)) THEN <<x>> \o s
    ELSE <<Head(s)>> \o Insert(x, Tail(s))

RECURSIVE SortItems(_)
SortItems(s) ==
    IF s = <<>> THEN <<>> ELSE Insert(Head(s), SortItems(Tail(s)))

\* Faulty variant: the items enumerated in insertion order, without sorting.
Sorted_Unsorted(items) == items

\* sorted(self.msis.items())
Sorted(items) == SortItems(items)

\* k + "_INTERRUPT"
ConstantName(k) == k \o INTERRUPT_SUFFIX

Builds == {1, 2}

\* for i, (k, v) in enumerate(sorted(self.msis.items())): the iterable is built
MsiSort(r) ==
    /\ msi_pc[r] = "sort"
    /\ msi_sorted' = [msi_sorted EXCEPT ![r] = Sorted(msis[r])]
    /\ msi_i' = [msi_i EXCEPT ![r] = 0]
    /\ msi_pc' = [msi_pc EXCEPT ![r] = "loop"]
    /\ UNCHANGED <<msis, irqs, constants, uart_vars, plat_vars>>

\* one iteration of the loop body
MsiLoop(r) ==
    /\ msi_pc[r] = "loop"
    /\ msi_i[r] < Len(msi_sorted[r])
    /\ LET i == msi_i[r]
           k == msi_sorted[r][i + 1][1]
           v == msi_sorted[r][i + 1][2]
       IN  /\ irqs' = [irqs EXCEPT ![r] = Append(@, <<i, v>>)]
           /\ constants' = [constants EXCEPT ![r] = Append(@, <<ConstantName(k), i>>)]
           /\ msi_i' = [msi_i EXCEPT ![r] = i + 1]
    /\ UNCHANGED <<msis, msi_pc, msi_sorted, uart_vars, plat_vars>>

\* the iterable is exhausted
MsiExit(r) ==
    /\ msi_pc[r] = "loop"
    /\ msi_i[r] = Len(msi_sorted[r])
    /\ msi_pc' = [msi_pc EXCEPT ![r] = "done"]
    /\ UNCHANGED <<msis, msi_sorted, msi_i, irqs, constants, uart_vars, plat_vars>>

\* Sequences of distinct elements of S, of length at most n.
RECURSIVE InjSeqs(_, _)
InjSeqs(S, n) ==
    IF n = 0 THEN {<<>>}
    ELSE LET shorter == InjSeqs(S, n - 1)
             longer  == UNION { { Append(s, x) : x \in S \ SeqRange(s) } : s \in shorter }
         IN  shorter \cup longer

ItemsOf(names) == [ j \in 1..Len(names) |-> <<names[j], IrqOf(names[j])>> ]

Reorderings(s) ==
    { t \in InjSeqs(SeqRange(s), Len(s)) : Len(t) = Len(s) }

\* No composition has run.
MsiIdle ==
    /\ msis = [r \in Builds |-> <<>>]
    /\ msi_pc = [r \in Builds |-> "off"]
    /\ msi_sorted = [r \in Builds |-> <<>>]
    /\ msi_i = [r \in Builds |-> 0]
    /\ irqs = [r \in Builds |-> <<>>]
    /\ constants = [r \in Builds |-> <<>>]

\* Two builds of the same mapping; the second inserts the same items in any order.
MsiStart ==
    /\ \E names \in InjSeqs(MsiNames, MaxMsis) :
       \E other \in Reorderings(ItemsOf(names)) :
           msis = [r \in Builds |-> IF r = 1 THEN ItemsOf(names) ELSE other]
    /\ msi_pc = [r \in Builds |-> "sort"]
    /\ msi_sorted = [r \in Builds |-> <<>>]
    /\ msi_i = [r \in Builds |-> 0]
    /\ irqs = [r \in Builds |-> <<>>]
    /\ constants = [r \in Builds |-> <<>>]

\* ===================================================== radiona_ulx3s.Platform

io_common ==
    <<
    <<"clk25", 0, "G2">>,
    <<"rst", 0, "R1">>,
    <<"user_led", 0, "B2">>,
    <<"user_led", 1, "C2">>,
    <<"user_led", 2, "C1">>,
    <<"user_led", 3, "D2">>,
    <<"user_led", 4, "D1">>,
    <<"user_led", 5, "E2">>,
    <<"user_led", 6, "E1">>,
    <<"user_led", 7, "H3">>,
    <<"serial", 0, "L4 M1">>,
    <<"sdram_clock", 0, "F19">>,
    <<"sdram", 0, "M20 M19 L20 L19 K20 K19 K18 J20 J19 H20 N19 G20 G19 J16 L18 M18 N18 P18 T18 T17 U20 E19 D20 D19 C20 E18 F18 J18 J17 T20 R20 T19 P20 F20 P19 N20 U19 E20">>,
    <<"gpio", 0, "B11 C11">>,
    <<"gpio", 1, "A10 A11">>,
    <<"gpio", 2, "A9 B10">>,
    <<"gpio", 3, "B9 C10">>,
    <<"usb", 0, "D15 E15 B12 C12">>,
    <<"spiflash", 0, "R2 V2 W2 Y2 W1">>,
    <<"spiflash4x", 0, "R2 W2 V2 Y2 W1">>,
    <<"gpdi", 0, "A17 A12 A14 A16">>,
    <<"oled_spi", 0, "P4 P3">>,
    <<"oled_ctl", 0, "P1 P2 N2">>,
    <<"j1", 0, "C11 B11 A11 A10 B10 A9 C10 B9 A8 A7 B8 C8 C7 C6 B6 A6 A5 A4 B1 A2 B4 C4 E3 F4 F3 G3 G5 H4">>,
    <<"j2", 0, "U17 U18 P16 N17 M17 N16 L17 L16 H17 H18 G18 F17 E17 D18 D17 C18 C15 B15 C17 B17 D16 C16 E14 D14 C13 B13 E13 D13">>,
    <<"lee_sdcard", 0, "C16 B17">>,
    <<"wifi_gpio0", 0, "L2">>,
    <<"ext0p", 0, "B11">>,
    <<"ext1p", 0, "A10">>
    >>

io_1_7 ==
    <<
    <<"spisdcard", 0, "J1 J3 H1 K2">>,
    <<"sdcard", 0, "J1 J3 K2 K1 H2 H1">>
    >>

io_2_0 ==
    <<
    <<"spisdcard", 0, "H2 J1 K2 J3">>,
    <<"sdcard", 0, "H2 J1 J3 H1 K1 K2 N5 P5">>
    >>

\* Faulty variant: any non-empty device name accepted.
DeviceOk_Loose(d) == d # ""

\* device in ["LFE5U-12F", "LFE5U-25F", "LFE5U-45F", "LFE5U-85F"]
DeviceOk(d) == d \in {"LFE5U-12F", "LFE5U-25F", "LFE5U-45F", "LFE5U-85F"}

\* revision in ["1.7", "2.0"]
RevisionOk(rev) == rev \in {"1.7", "2.0"}

\* _io_common + {"1.7": _io_1_7, "2.0": _io_2_0}[revision]   (no other key exists)
ComposeIo(rev) ==
    io_common \o (CASE rev = "1.7" -> io_1_7 [] rev = "2.0" -> io_2_0)

\* The arguments LatticePlatform.__init__ is called with.
LatticeArgs(d, io, tc) ==
    [ device |-> <<d, "-6BG381C">>, io |-> io, toolchain |-> tc ]

\* Selectors a caller may pass: the valid ones and some that are not.
DeviceInputs == {"LFE5U-12F", "LFE5U-25F", "LFE5U-45F", "LFE5U-85F",
                 "LFE5UM-45F", "LFE5UM5G-85F", ""}
RevisionInputs == {"1.7", "2.0", "1.0", "3.0", "2"}
ToolchainInputs == {"trellis", "diamond"}

\* assert device in [...]
AssertDevice ==
    /\ plat_pc = "assert_device"
    /\ plat_pc' = IF DeviceOk(device) THEN "assert_revision" ELSE "AssertionError"
    /\ UNCHANGED <<device, revision, toolchain, plat_io, lattice_init, uart_vars, msi_vars>>

\* assert revision in [...]
AssertRevision ==
    /\ plat_pc = "assert_revision"
    /\ plat_pc' = IF RevisionOk(revision) THEN "compose" ELSE "AssertionError"
    /\ UNCHANGED <<device, revision, toolchain, plat_io, lattice_init, uart_vars, msi_vars>>

\* _io = _io_common + {...}[revision]
PlatformCompose ==
    /\ plat_pc = "compose"
    /\ plat_io' = ComposeIo(revision)
    /\ plat_pc' = "super_init"
    /\ UNCHANGED <<device, revision, toolchain, lattice_init, uart_vars, msi_vars>>

\* LatticePlatform.__init__(self, device + "-6BG381C", _io, toolchain=toolchain, **kwargs)
LatticePlatformInit ==
    /\ plat_pc = "super_init"
    /\ lattice_init' = <<LatticeArgs(device, plat_io, toolchain)>>
    /\ plat_pc' = "done"
    /\ UNCHANGED <<device, revision, toolchain, plat_io, uart_vars, msi_vars>>

\* No Platform is being constructed.
PlatIdle ==
    /\ device = "LFE5U-45F"
    /\ revision = "2.0"
    /\ toolchain = "trellis"
    /\ plat_pc = "off"
    /\ plat_io = <<>>
    /\ lattice_init = <<>>

\* Platform(device, revision, toolchain) is entered.
PlatStart ==
    /\ device \in DeviceInputs
    /\ revision \in RevisionInputs
    /\ toolchain \in ToolchainInputs
    /\ plat_pc = "assert_device"
    /\ plat_io = <<>>
    /\ lattice_init = <<>>

\* ========================================================= specifications

\* The PCIeUART bridge, one clock cycle per step.
Init == UartReset /\ MsiIdle /\ PlatIdle

Next ==
    \/ HostIdle
    \/ HostWriteRxReady
    \/ HostWriteTxValid
    \/ HostWriteTxData

Spec == Init /\ [][Next]_vars

\* The MSI allocation of two builds.
InitMsi == UartReset /\ MsiStart /\ PlatIdle

NextMsi ==
    \/ \E r \in Builds : MsiSort(r)
    \/ \E r \in Builds : MsiLoop(r)
    \/ \E r \in Builds : MsiExit(r)

SpecMsi == InitMsi /\ [][NextMsi]_vars

\* The construction of the ULX3S Platform.
InitPlatform == UartReset /\ MsiIdle /\ PlatStart

NextPlatform ==
    \/ AssertDevice
    \/ AssertRevision
    \/ PlatformCompose
    \/ LatticePlatformInit

SpecPlatform == InitPlatform /\ [][NextPlatform]_vars

\* The clock of the sys domain keeps running.
LiveSpec == Init /\ [][Next]_vars /\ WF_vars(Next)

\* ================================================================== claims

\* A cycle in which the host pulses tx_valid while tx_ready reads true.
AcceptedPulse == cyc.op = "tx_valid" /\ cyc.tx_ready
\* A cycle in which the downstream channel has valid and ready both asserted.
DownstreamTransfer == cyc.source_valid /\ cyc.source_ready

\* C1 as stated: after an accepted tx_valid pulse the downstream channel presents
\* valid=1 with the staged byte, valid stays asserted through every cycle without
\* downstream ready, and after ANY cycle with valid and downstream ready tx_ready
\* reads true again.
C1_TxDelivery_Original ==
    /\ (cyc.op = "tx_data") => tx_data_storage = cyc.dat_w
    /\ AcceptedPulse => (source_valid /\ SourceData(tx_data_storage) = cyc.storage)
    /\ (cyc.source_valid /\ ~cyc.source_ready) => source_valid
    /\ DownstreamTransfer => TxReadyStatus(source_valid)

C1_Safety ==
    /\ (cyc.op = "tx_data") => tx_data_storage = cyc.dat_w
    /\ AcceptedPulse => (source_valid /\ SourceData(tx_data_storage) = cyc.storage)
    /\ (cyc.source_valid /\ ~cyc.source_ready) => source_valid
    /\ (DownstreamTransfer /\ cyc.op # "tx_valid") => TxReadyStatus(source_valid)

\* C1 (amended): a byte written to tx_data is the one staged; after an accepted
\* tx_valid pulse the downstream channel presents valid=1 with the staged byte in
\* the next cycle; valid stays asserted through every cycle without downstream
\* ready; if the downstream asserts ready again and again, a cycle with valid and
\* ready follows; after such a cycle tx_ready reads true again provided tx_valid
\* was not pulsed in that very cycle.
C1_TxDelivery ==
    /\ []C1_Safety
    /\ ([]<>cyc.source_ready) => (AcceptedPulse ~> DownstreamTransfer)

\* C1 witness: byte 1 was staged, transferred downstream in the cycle that just
\* ended, and tx_ready reads true again.
C1_Witness ==
    /\ polled /\ DownstreamTransfer /\ cyc.op # "tx_valid"
    /\ cyc.source_data = 1
    /\ sent = staged /\ Len(sent) >= 1
    /\ TxReadyStatus(source_valid)

\* C2: in every cycle the upstream ready (uart.sink.ready) is asserted exactly when
\* the host's rx_ready write strobe is, so an upstream byte is consumed exactly in
\* the cycles of an acknowledge made while rx_valid is true.
C2_RxAcknowledge ==
    /\ cyc.sink_ready <=> (cyc.op = "rx_ready")
    /\ (cyc.sink_valid /\ cyc.sink_ready) <=> (cyc.op = "rx_ready" /\ cyc.rx_valid)

\* C2 witness: the host acknowledged while rx_valid was true and ready was raised.
C2_Witness == cyc.op = "rx_ready" /\ cyc.rx_valid /\ cyc.sink_valid /\ cyc.sink_ready

\* C4: in every cycle, and for the register as it stands, tx_ready is the negation
\* of uart.source.valid.
C4_TxReadyIsNotPending ==
    /\ cyc.tx_ready = ~cyc.source_valid
    /\ TxReadyStatus(source_valid) = ~source_valid

\* C4 witness: a transmission was in flight during the last cycle and still is,
\* after an earlier byte went through; tx_ready read false.
C4_Witness ==
    /\ cyc.source_valid /\ source_valid /\ ~cyc.tx_ready
    /\ Len(sent) >= 1

\* C5: in every cycle rx_valid equals the upstream valid and rx_data the upstream
\* data, whatever the host does on the TX side in that cycle.
C5_RxMirror ==
    /\ cyc.rx_valid = cyc.sink_valid
    /\ cyc.rx_data = cyc.sink_data

\* C5 witness: the upstream presented valid=1, data=1 in a cycle in which the host
\* pulsed tx_valid with a transmission in flight; the host saw rx_valid and 1.
C5_Witness ==
    /\ cyc.sink_valid /\ cyc.sink_data = 1
    /\ cyc.rx_valid /\ cyc.rx_data = 1
    /\ cyc.op = "tx_valid" /\ cyc.source_valid

\* C8 as stated: Transmitting and downstream ready gives Idle, Idle and a tx_valid
\* pulse gives Transmitting, every other cycle leaves the state unchanged.
C8_TxStateMachine_Original ==
    /\ (cyc.source_valid /\ cyc.source_ready) => ~source_valid
    /\ (~cyc.source_valid /\ cyc.op = "tx_valid") => source_valid
    /\ (~(cyc.source_valid /\ cyc.source_ready) /\ ~(~cyc.source_valid /\ cyc.op = "tx_valid"))
           => source_valid = cyc.source_valid

\* C8 (amended): a cycle with a tx_valid pulse gives Transmitting whatever the
\* state and downstream ready; a cycle without a pulse in which the state is
\* Transmitting and downstream ready is asserted gives Idle; every other cycle
\* leaves the state unchanged.
C8_TxStateMachine ==
    /\ (cyc.op = "tx_valid") => source_valid
    /\ (cyc.op # "tx_valid" /\ cyc.source_valid /\ cyc.source_ready) => ~source_valid
    /\ (cyc.op # "tx_valid" /\ ~(cyc.source_valid /\ cyc.source_ready))
           => source_valid = cyc.source_valid

\* C8 witness: tx_valid was pulsed in a cycle with the state Transmitting and
\* downstream ready asserted, and the state is still Transmitting.
C8_Witness ==
    cyc.op = "tx_valid" /\ cyc.source_valid /\ cyc.source_ready /\ source_valid

\* C9 as stated: whatever the timing of a tx_valid pulse written while tx_ready is
\* false, at most one downstream transfer completes before the state is Idle again.
C9_NoDoubleBuffering_Original == burst <= 1

\* C9 (amended): a tx_valid pulse written while tx_ready is false in a cycle
\* without downstream ready changes nothing; the transfers completed since the
\* state left Idle number at most one more than the tx_valid pulses written in a
\* cycle with valid and downstream ready both asserted (each such pulse keeps the
\* state Transmitting and the byte of tx_data is transferred again).
C9_NoDoubleBuffering ==
    /\ (cyc.op = "tx_valid" /\ cyc.source_valid /\ ~cyc.source_ready) => source_valid
    /\ burst <= races + 1
    /\ source_valid => burst = races
    /\ ~source_valid => ((burst = 0 /\ races = 0) \/ burst = races + 1)

\* C9 witness: tx_valid was pulsed with the state Transmitting in a cycle without
\* downstream ready; the state is still Transmitting and no transfer has completed.
C9_Witness ==
    /\ cyc.op = "tx_valid" /\ cyc.source_valid /\ ~cyc.source_ready
    /\ source_valid /\ burst = 0 /\ races = 0

IsPrefix(s, t) == Len(s) <= Len(t) /\ \A j \in 1..Len(s) : s[j] = t[j]

\* C10: while the host has written tx_valid and tx_data only in cycles where
\* tx_ready read true, the bytes transferred downstream are a prefix of the bytes
\* staged at the tx_valid pulses, at most one staged byte is outstanding, it is
\* outstanding exactly while uart.source.valid is asserted, and it is the byte the
\* downstream channel is shown.
C10_ExactlyOnce ==
    polled =>
        /\ IsPrefix(sent, staged)
        /\ Len(staged) - Len(sent) \in {0, 1}
        /\ source_valid <=> (Len(staged) = Len(sent) + 1)
        /\ source_valid => SourceData(tx_data_storage) = staged[Len(staged)]

\* C10 witness: two different bytes were staged and both arrived, in order.
C10_Witness ==
    polled /\ Len(sent) >= 2 /\ sent = staged /\ sent[1] # sent[2]

RankOf(k, names) == Cardinality({ n \in names : StrLess(n, k) })

\* C3: once the allocation loop of a build has finished, every name of msis has
\* the constant <name>_INTERRUPT equal to the number of names smaller than it, the
\* indices are exactly 0..N-1, irqs[i] is wired to the signal of the name with
\* index i, and the names {DMA_WRITER, DMA_READER} give DMA_READER=0, DMA_WRITER=1.
C3_InterruptIndices ==
    \A r \in Builds : msi_pc[r] = "done" =>
        LET names == { it[1] : it \in SeqRange(msis[r]) }
            n     == Len(msis[r])
        IN  /\ Len(constants[r]) = n
            /\ Len(irqs[r]) = n
            /\ { c[2] : c \in SeqRange(constants[r]) } = 0..(n - 1)
            /\ \A it \in SeqRange(msis[r]) :
                   /\ <<it[1] \o INTERRUPT_SUFFIX, RankOf(it[1], names)>> \in SeqRange(constants[r])
                   /\ <<RankOf(it[1], names), it[2]>> \in SeqRange(irqs[r])
            /\ names = {DMA_WRITER, DMA_READER} =>
                   /\ constants[r] = << <<DMA_READER \o INTERRUPT_SUFFIX, 0>>,
                                        <<DMA_WRITER \o INTERRUPT_SUFFIX, 1>> >>
                   /\ irqs[r] = << <<0, <<"pcie_dma.reader", "irq">> >>,
                                   <<1, <<"pcie_dma.writer", "irq">> >> >>

\* C3 witness: the mapping of the source, DMA_WRITER inserted before DMA_READER,
\* has been allocated: DMA_READER_INTERRUPT = 0 and DMA_WRITER_INTERRUPT = 1.
C3_Witness ==
    /\ msis[1] = NereidMsis
    /\ msi_pc[1] = "done"
    /\ constants[1] = << <<DMA_READER \o INTERRUPT_SUFFIX, 0>>,
                         <<DMA_WRITER \o INTERRUPT_SUFFIX, 1>> >>

\* C7: two builds whose msis hold the same items, inserted in any order, end with
\* the same constant listing and the same irq wiring.
C7_BuildDeterminism ==
    (msi_pc[1] = "done" /\ msi_pc[2] = "done") =>
        /\ constants[1] = constants[2]
        /\ irqs[1] = irqs[2]

\* C7 witness: both builds are done, the second inserted three items in another
\* order than the first.
C7_Witness ==
    /\ msi_pc[1] = "done" /\ msi_pc[2] = "done"
    /\ Len(msis[1]) >= 2
    /\ msis[1] # msis[2]
    /\ constants[1] = constants[2]

ValidDevices == {"LFE5U-12F", "LFE5U-25F", "LFE5U-45F", "LFE5U-85F"}
ValidRevisions == {"1.7", "2.0"}
ExpectedIo == io_common \o (IF revision = "1.7" THEN io_1_7 ELSE io_2_0)

\* C6: with a device or revision outside the valid sets the construction never
\* composes the IO list nor initialises the underlying platform and ends in an
\* assertion failure; with a valid pair it never fails and ends with the IO list
\* equal to the common table followed by the table of the revision, which is what
\* the underlying platform is initialised with.
C6_ConfigErrorsFatal ==
    /\ (device \notin ValidDevices \/ revision \notin ValidRevisions) =>
           /\ plat_io = <<>>
           /\ lattice_init = <<>>
           /\ plat_pc \in {"assert_device", "assert_revision", "AssertionError"}
           /\ plat_pc # "AssertionError" => ENABLED NextPlatform
    /\ (device \in ValidDevices /\ revision \in ValidRevisions) =>
           /\ plat_pc # "AssertionError"
           /\ plat_pc # "done" => ENABLED NextPlatform
           /\ plat_pc = "done" =>
                  /\ plat_io = ExpectedIo
                  /\ lattice_init = << [device |-> <<device, "-6BG381C">>,
                                        io |-> ExpectedIo, toolchain |-> toolchain] >>
    /\ lattice_init # <<>> => plat_io # <<>>

\* C6 witness: a valid device with revision "3.0" has failed, nothing composed.
C6_Witness ==
    /\ device = "LFE5U-85F" /\ revision = "3.0"
    /\ plat_pc = "AssertionError"
    /\ plat_io = <<>> /\ lattice_init = <<>>
====
